---- MODULE Spec2Model ----
(***************************************************************************)
(* wastream: the shared outbound HTTP client (utils/http_client.py), the   *)
(* application lifespan and the request-logging middleware (main.py),      *)
(* modelled on asyncio's single-threaded cooperative scheduling: a step of *)
(* the model is the code a coroutine runs between two suspension points.   *)
(***************************************************************************)
EXTENDS Integers, Sequences, FiniteSets, TLC

\* ------------------------------------------------------------------ bounds
NTasks == 2             \* coroutines that use http_client concurrently
MaxHandles == 3         \* httpx.AsyncClient objects constructed in one run
NReq == 2               \* inbound requests that pass through the middleware
MaxTime == 3            \* clock ticks in one run

\* --------------------------------------------------------------- constants
None == 0               \* Python's None, where a handle is expected
Lifespan == 0           \* the caller id of the lifespan coroutine
Timeout == 15           \* httpx.Timeout(15.0)

Tasks == 1..NTasks
Callers == {Lifespan} \cup Tasks
Handles == 1..MaxHandles
ProxyChoices == {"", "http://proxy:8080"}

VARIABLES
    PROXY_URL,      \* wastream.core.config.PROXY_URL, read at import
    _client,        \* HTTPClient._client: None or the current handle
    made,           \* how many AsyncClient objects were constructed (handle h is the h-th)
    hstate,         \* per handle: "absent", "open", "closing" (aclose begun), "closed" (aclose returned)
    hconf,          \* per handle: the arguments it was constructed with
    pc,             \* per caller: where its coroutine stands
    local,          \* per caller: the handle its suspended call holds (client in get/post, self._client in close)
    last,           \* the call of HTTPClient that ran last: who, which, the handle involved, how it ended
    closeEvent,     \* the latest thing any close() call did: "none" (no call yet), "called", "returned", "raised"
    staleUpTo,      \* made, as it was when a close() call last returned
    lifecycle,      \* the lifespan's phase: Created, Starting, Running, Stopping, Stopped
    cleanup_task,   \* the sweeper task: "none", "sleeping", "cleaning", "cancelled", "failed"
    cancelRequested,\* cleanup_task.cancel() was called on the running task
    db,             \* the database: "down", "up", "init_failed", "torn_down"
    trace,          \* the shutdown steps begun, in order
    stepsDone,      \* how many shutdown steps have finished
    awaited,        \* what "await cleanup_task" raised: "none" (not yet), "cancelled", "error"
    error,          \* the step whose exception left the lifespan, or "none"
    now,            \* time.time(), in ticks of 4 ms
    rpc,            \* per inbound request: "new", "call_next", "returned", "raised"
    request,        \* per inbound request: its method and path
    start_time,     \* per inbound request: dispatch's start_time (0 once dispatch has ended and its locals are gone)
    result,         \* per inbound request: what dispatch gave its caller
    log             \* the lines handed to logger.log, in order

lifeVars == <<lifecycle, cleanup_task, cancelRequested, db, trace, stepsDone, awaited, error>>

logVars == <<now, rpc, request, start_time, result, log>>

clientVars == <<PROXY_URL, _client, made, hstate, hconf, local, last,
                closeEvent, staleUpTo>>

\* ======================================================= HTTPClient (http_client.py)

NoConf == [timeout |-> 0, proxies |-> {}, follow_redirects |-> FALSE,
           max_connections |-> "absent", max_keepalive_connections |-> "absent"]

\* httpx.AsyncClient(timeout=..., proxies=..., follow_redirects=True, limits=...)
AsyncClient(proxies) ==
    [timeout |-> Timeout, proxies |-> proxies, follow_redirects |-> TRUE,
     max_connections |-> "None", max_keepalive_connections |-> "None"]

\* a routing table that names the http scheme only
Proxies_http_only == IF PROXY_URL # "" THEN {<<"http://", PROXY_URL>>} ELSE {}

\* {"all://": PROXY_URL} if PROXY_URL else None  (None is the empty routing table)
Proxies == IF PROXY_URL # "" THEN {<<"all://", PROXY_URL>>} ELSE {}

Call(c, op, h, outcome) == [caller |-> c, op |-> op, handle |-> h, outcome |-> outcome]

\* get_client without the "is None" test: a new handle on every call
get_client_always_new ==
    /\ made < MaxHandles
    /\ _client' = made + 1
    /\ made' = made + 1
    /\ hstate' = [hstate EXCEPT ![made + 1] = "open"]
    /\ hconf' = [hconf EXCEPT ![made + 1] = AsyncClient(Proxies)]

\* HTTPClient.get_client: no await in its body, so it runs as one step;
\* the value it returns is self._client as it leaves it, _client'
get_client ==
    IF _client = None
    THEN /\ made < MaxHandles
         /\ _client' = made + 1
         /\ made' = made + 1
         /\ hstate' = [hstate EXCEPT ![made + 1] = "open"]
         /\ hconf' = [hconf EXCEPT ![made + 1] = AsyncClient(Proxies)]
    ELSE UNCHANGED <<_client, made, hstate, hconf>>

\* get / post: client = await self.get_client(); then client.<verb>(url, **kwargs)
\* is called and awaited
verb_call(c, verb) ==
    /\ get_client
    /\ local' = [local EXCEPT ![c] = _client']
    /\ last' = Call(c, verb, _client', "awaiting")
    /\ UNCHANGED <<PROXY_URL, closeEvent, staleUpTo>>

\* the awaited client.get / client.post ends: a response, or the transport's error
\* (httpx refuses a handle whose aclose has begun)
verb_return(c, verb) ==
    /\ \E r \in {"response", "error"} :
          /\ (r = "response" => hstate[local[c]] = "open")
          /\ last' = Call(c, verb, local[c], r)
    /\ local' = [local EXCEPT ![c] = None]
    /\ UNCHANGED <<PROXY_URL, _client, made, hstate, hconf,
                   closeEvent, staleUpTo>>

\* close without the "if self._client" test: None.aclose() raises AttributeError
close_call_unguarded(c) ==
    /\ IF _client # None
       THEN /\ local' = [local EXCEPT ![c] = _client]
            /\ hstate' = [hstate EXCEPT ![_client] = IF @ = "open" THEN "closing" ELSE @]
            /\ last' = Call(c, "close", _client, "awaiting")
            /\ closeEvent' = "called"
       ELSE /\ last' = Call(c, "close", None, "raised")
            /\ closeEvent' = "raised"
            /\ UNCHANGED <<local, hstate>>
    /\ UNCHANGED <<PROXY_URL, _client, made, hconf, staleUpTo>>

\* HTTPClient.close up to its suspension: the test, and aclose() called on the handle
close_call(c) ==
    /\ IF _client # None
       THEN /\ local' = [local EXCEPT ![c] = _client]
            /\ hstate' = [hstate EXCEPT ![_client] = IF @ = "open" THEN "closing" ELSE @]
            /\ last' = Call(c, "close", _client, "awaiting")
            /\ closeEvent' = "called"
            /\ UNCHANGED staleUpTo
       ELSE /\ last' = Call(c, "close", None, "returned")
            /\ closeEvent' = "returned"
            /\ staleUpTo' = made
            /\ UNCHANGED <<local, hstate>>
    /\ UNCHANGED <<PROXY_URL, _client, made, hconf>>

\* close that forgets to reset self._client after aclose()
close_return_keeps(c) ==
    /\ hstate' = [hstate EXCEPT ![local[c]] = "closed"]
    /\ local' = [local EXCEPT ![c] = None]
    /\ last' = Call(c, "close", local[c], "returned")
    /\ closeEvent' = "returned"
    /\ staleUpTo' = made
    /\ UNCHANGED <<PROXY_URL, _client, made, hconf>>

\* HTTPClient.close resumed: aclose() has returned, self._client = None
close_return(c) ==
    /\ hstate' = [hstate EXCEPT ![local[c]] = "closed"]
    /\ _client' = None
    /\ local' = [local EXCEPT ![c] = None]
    /\ last' = Call(c, "close", local[c], "returned")
    /\ closeEvent' = "returned"
    /\ staleUpTo' = made
    /\ UNCHANGED <<PROXY_URL, made, hconf>>

\* HTTPClient.close resumed by an exception of aclose(): line 38 is skipped
close_raise(c) ==
    /\ local' = [local EXCEPT ![c] = None]
    /\ last' = Call(c, "close", local[c], "raised")
    /\ closeEvent' = "raised"
    /\ UNCHANGED <<PROXY_URL, _client, made, hstate, hconf, staleUpTo>>

InitClient ==
    /\ PROXY_URL \in ProxyChoices
    /\ _client = None
    /\ made = 0
    /\ hstate = [h \in Handles |-> "absent"]
    /\ hconf = [h \in Handles |-> NoConf]
    /\ local = [c \in Callers |-> None]
    /\ last = Call(Lifespan, "none", None, "none")
    /\ closeEvent = "none"
    /\ staleUpTo = 0

\* ------------------------------------------- coroutines that use http_client

GetClient(t) ==
    /\ pc[t] = "idle"
    /\ get_client
    /\ last' = Call(t, "get_client", _client', "returned")
    /\ UNCHANGED <<pc, PROXY_URL, local, closeEvent, staleUpTo>>
    /\ UNCHANGED <<lifeVars, logVars>>

Get(t) ==
    /\ pc[t] = "idle"
    /\ verb_call(t, "get")
    /\ pc' = [pc EXCEPT ![t] = "get"]
    /\ UNCHANGED <<lifeVars, logVars>>

Post(t) ==
    /\ pc[t] = "idle"
    /\ verb_call(t, "post")
    /\ pc' = [pc EXCEPT ![t] = "post"]
    /\ UNCHANGED <<lifeVars, logVars>>

Return(t) ==
    /\ pc[t] \in {"get", "post"}
    /\ verb_return(t, pc[t])
    /\ pc' = [pc EXCEPT ![t] = "idle"]
    /\ UNCHANGED <<lifeVars, logVars>>

Close(t) ==
    /\ pc[t] = "idle"
    /\ close_call(t)
    /\ pc' = [pc EXCEPT ![t] = IF local'[t] # None THEN "aclose" ELSE "idle"]
    /\ UNCHANGED <<lifeVars, logVars>>

CloseDone(t) ==
    /\ pc[t] = "aclose"
    /\ close_return(t)
    /\ pc' = [pc EXCEPT ![t] = "idle"]
    /\ UNCHANGED <<lifeVars, logVars>>

CloseRaise(t) ==
    /\ pc[t] = "aclose"
    /\ close_raise(t)
    /\ pc' = [pc EXCEPT ![t] = "idle"]
    /\ UNCHANGED <<lifeVars, logVars>>

\* ================================================================ lifespan (main.py)

ShutdownOrder == <<"cancel", "await_sweeper", "close_client", "teardown_database">>

SweeperRunning == cleanup_task \in {"sleeping", "cleaning"}

\* The event loop runs another coroutine only while the lifespan is suspended:
\* at its yield, or inside one of its awaits.
LifespanSuspended == pc[Lifespan] \in {"yielded", "awaiting", "aclose", "in_teardown"}

\* The host routes requests from startup's completion until it has stopped; the
\* lifespan does nothing to keep handlers from running during its shutdown code.
Accepting == lifecycle \in {"Running", "Stopping"}

InitLife ==
    /\ lifecycle = "Created"
    /\ cleanup_task = "none"
    /\ cancelRequested = FALSE
    /\ db = "down"
    /\ trace = <<>>
    /\ stepsDone = 0
    /\ awaited = "none"
    /\ error = "none"

LifespanStep(to) == pc' = [pc EXCEPT ![Lifespan] = to]

\* a lifespan that creates the sweeper task first of all, before setup_database()
LifespanEnter_creates_task ==
    /\ pc[Lifespan] = "created"
    /\ LifespanStep("setup_database")
    /\ lifecycle' = "Starting"
    /\ cleanup_task' = "sleeping"
    /\ UNCHANGED <<cancelRequested, db, trace, stepsDone, awaited, error>>
    /\ UNCHANGED <<clientVars, logVars>>

\* the host enters the lifespan context
LifespanEnter ==
    /\ pc[Lifespan] = "created"
    /\ LifespanStep("setup_database")
    /\ lifecycle' = "Starting"
    /\ UNCHANGED <<cleanup_task, cancelRequested, db, trace, stepsDone, awaited, error>>
    /\ UNCHANGED <<clientVars, logVars>>

\* a lifespan that logs a failed setup_database() and goes on
SetupDatabase_swallows ==
    /\ pc[Lifespan] = "setup_database"
    /\ \E ok \in BOOLEAN :
          /\ db' = IF ok THEN "up" ELSE "init_failed"
          /\ LifespanStep("create_task")
    /\ UNCHANGED <<lifecycle, cleanup_task, cancelRequested, trace, stepsDone, awaited, error>>
    /\ UNCHANGED <<clientVars, logVars>>

\* a lifespan whose body sits in try/finally: a failed setup_database() runs the shutdown code
SetupDatabase_finally ==
    /\ pc[Lifespan] = "setup_database"
    /\ \E ok \in BOOLEAN :
          IF ok
          THEN /\ db' = "up"
               /\ LifespanStep("create_task")
               /\ UNCHANGED <<lifecycle, error>>
          ELSE /\ db' = "init_failed"
               /\ LifespanStep("cancel")
               /\ lifecycle' = "Stopping"
               /\ UNCHANGED error
    /\ UNCHANGED <<cleanup_task, cancelRequested, trace, stepsDone, awaited>>
    /\ UNCHANGED <<clientVars, logVars>>

\* await setup_database(): it returns, or its exception leaves the lifespan
SetupDatabase ==
    /\ pc[Lifespan] = "setup_database"
    /\ \E ok \in BOOLEAN :
          IF ok
          THEN /\ db' = "up"
               /\ LifespanStep("create_task")
               /\ UNCHANGED error
          ELSE /\ db' = "init_failed"
               /\ LifespanStep("raised")
               /\ error' = "setup_database"
    /\ UNCHANGED <<lifecycle, cleanup_task, cancelRequested, trace, stepsDone, awaited>>
    /\ UNCHANGED <<clientVars, logVars>>

\* cleanup_task = asyncio.create_task(cleanup_expired_data())
CreateTask ==
    /\ pc[Lifespan] = "create_task"
    /\ cleanup_task' = "sleeping"
    /\ LifespanStep("yield")
    /\ UNCHANGED <<lifecycle, cancelRequested, db, trace, stepsDone, awaited, error>>
    /\ UNCHANGED <<clientVars, logVars>>

\* yield: startup is complete, the host starts serving
Yield ==
    /\ pc[Lifespan] = "yield"
    /\ LifespanStep("yielded")
    /\ lifecycle' = "Running"
    /\ UNCHANGED <<cleanup_task, cancelRequested, db, trace, stepsDone, awaited, error>>
    /\ UNCHANGED <<clientVars, logVars>>

\* the host's shutdown resumes the lifespan after its yield
Resume ==
    /\ pc[Lifespan] = "yielded"
    /\ LifespanStep("cancel")
    /\ lifecycle' = "Stopping"
    /\ UNCHANGED <<cleanup_task, cancelRequested, db, trace, stepsDone, awaited, error>>
    /\ UNCHANGED <<clientVars, logVars>>

\* the host ends the running phase by raising into the lifespan at its yield (an
\* exception of the context's body, or the cancellation of the lifespan's task): the
\* yield is in no try block, so the exception leaves the lifespan there
YieldThrow ==
    /\ pc[Lifespan] = "yielded"
    /\ LifespanStep("raised")
    /\ error' = "yield"
    /\ UNCHANGED <<lifecycle, cleanup_task, cancelRequested, db, trace, stepsDone, awaited>>
    /\ UNCHANGED <<clientVars, logVars>>

\* a lifespan that goes on to await the task without calling cancel()
CancelTask_forgets ==
    /\ pc[Lifespan] = "cancel"
    /\ trace' = Append(trace, "cancel")
    /\ stepsDone' = stepsDone + 1
    /\ LifespanStep("await_task")
    /\ UNCHANGED <<lifecycle, cleanup_task, cancelRequested, db, awaited, error>>
    /\ UNCHANGED <<clientVars, logVars>>

\* cleanup_task.cancel(): a request, honoured when the task next runs; nothing on a finished task
CancelTask ==
    /\ pc[Lifespan] = "cancel"
    /\ trace' = Append(trace, "cancel")
    /\ stepsDone' = stepsDone + 1
    /\ cancelRequested' = SweeperRunning
    /\ LifespanStep("await_task")
    /\ UNCHANGED <<lifecycle, cleanup_task, db, awaited, error>>
    /\ UNCHANGED <<clientVars, logVars>>

\* a lifespan that cancels the task and does not await it
AwaitTask_skipped ==
    /\ pc[Lifespan] = "await_task"
    /\ trace' = Append(trace, "await_sweeper")
    /\ stepsDone' = stepsDone + 1
    /\ LifespanStep("close")
    /\ UNCHANGED <<lifecycle, cleanup_task, cancelRequested, db, awaited, error>>
    /\ UNCHANGED <<clientVars, logVars>>

\* await cleanup_task begins
AwaitTask ==
    /\ pc[Lifespan] = "await_task"
    /\ trace' = Append(trace, "await_sweeper")
    /\ LifespanStep("awaiting")
    /\ UNCHANGED <<lifecycle, cleanup_task, cancelRequested, db, stepsDone, awaited, error>>
    /\ UNCHANGED <<clientVars, logVars>>

\* a lifespan without the try/except around the await
AwaitTaskDone_propagates ==
    /\ pc[Lifespan] = "awaiting"
    /\ cleanup_task \in {"cancelled", "failed"}
    /\ stepsDone' = stepsDone + 1
    /\ awaited' = IF cleanup_task = "cancelled" THEN "cancelled" ELSE "error"
    /\ LifespanStep("raised")
    /\ error' = "cleanup_task"
    /\ UNCHANGED <<lifecycle, cleanup_task, cancelRequested, db, trace>>
    /\ UNCHANGED <<clientVars, logVars>>

\* a lifespan whose except clause passes over every exception of the task
AwaitTaskDone_swallows_all ==
    /\ pc[Lifespan] = "awaiting"
    /\ cleanup_task \in {"cancelled", "failed"}
    /\ stepsDone' = stepsDone + 1
    /\ awaited' = IF cleanup_task = "cancelled" THEN "cancelled" ELSE "error"
    /\ LifespanStep("close")
    /\ UNCHANGED <<lifecycle, cleanup_task, cancelRequested, db, trace, error>>
    /\ UNCHANGED <<clientVars, logVars>>

\* await cleanup_task ends: CancelledError is caught and passed over, any other
\* exception of the task leaves the lifespan
AwaitTaskDone ==
    /\ pc[Lifespan] = "awaiting"
    /\ cleanup_task \in {"cancelled", "failed"}
    /\ stepsDone' = stepsDone + 1
    /\ IF cleanup_task = "cancelled"
       THEN /\ awaited' = "cancelled"
            /\ LifespanStep("close")
            /\ UNCHANGED error
       ELSE /\ awaited' = "error"
            /\ LifespanStep("raised")
            /\ error' = "cleanup_task"
    /\ UNCHANGED <<lifecycle, cleanup_task, cancelRequested, db, trace>>
    /\ UNCHANGED <<clientVars, logVars>>

\* await http_client.close() begins; with no handle it returns at once
CloseClient ==
    /\ pc[Lifespan] = "close"
    /\ trace' = Append(trace, "close_client")
    /\ close_call(Lifespan)
    /\ IF local'[Lifespan] # None
       THEN LifespanStep("aclose") /\ UNCHANGED stepsDone
       ELSE LifespanStep("teardown") /\ stepsDone' = stepsDone + 1
    /\ UNCHANGED <<lifecycle, cleanup_task, cancelRequested, db, awaited, error>>
    /\ UNCHANGED logVars

CloseClientDone ==
    /\ pc[Lifespan] = "aclose"
    /\ close_return(Lifespan)
    /\ stepsDone' = stepsDone + 1
    /\ LifespanStep("teardown")
    /\ UNCHANGED <<lifecycle, cleanup_task, cancelRequested, db, trace, awaited, error>>
    /\ UNCHANGED logVars

CloseClientRaise ==
    /\ pc[Lifespan] = "aclose"
    /\ close_raise(Lifespan)
    /\ stepsDone' = stepsDone + 1
    /\ LifespanStep("raised")
    /\ error' = "close"
    /\ UNCHANGED <<lifecycle, cleanup_task, cancelRequested, db, trace, awaited>>
    /\ UNCHANGED logVars

\* await teardown_database() begins
TeardownDatabase ==
    /\ pc[Lifespan] = "teardown"
    /\ trace' = Append(trace, "teardown_database")
    /\ LifespanStep("in_teardown")
    /\ UNCHANGED <<lifecycle, cleanup_task, cancelRequested, db, stepsDone, awaited, error>>
    /\ UNCHANGED <<clientVars, logVars>>

\* teardown_database() returns and the lifespan ends
TeardownDatabaseDone ==
    /\ pc[Lifespan] = "in_teardown"
    /\ db' = "torn_down"
    /\ stepsDone' = stepsDone + 1
    /\ LifespanStep("done")
    /\ lifecycle' = "Stopped"
    /\ UNCHANGED <<cleanup_task, cancelRequested, trace, awaited, error>>
    /\ UNCHANGED <<clientVars, logVars>>

TeardownDatabaseRaise ==
    /\ pc[Lifespan] = "in_teardown"
    /\ stepsDone' = stepsDone + 1
    /\ LifespanStep("raised")
    /\ error' = "teardown_database"
    /\ UNCHANGED <<lifecycle, cleanup_task, cancelRequested, db, trace, awaited>>
    /\ UNCHANGED <<clientVars, logVars>>

\* --------------------------------------------- the sweeper, cleanup_expired_data()

SweeperStep(to) ==
    /\ LifespanSuspended
    /\ cleanup_task' = to
    /\ UNCHANGED <<lifecycle, cancelRequested, db, trace, stepsDone, awaited, error>>
    /\ UNCHANGED <<clientVars, pc, logVars>>

\* the interval has passed: a cleanup pass begins
SweeperClean == cleanup_task = "sleeping" /\ ~cancelRequested /\ SweeperStep("cleaning")

\* the pass is over: sleep until the next interval
SweeperSleep == cleanup_task = "cleaning" /\ ~cancelRequested /\ SweeperStep("sleeping")

\* the task ends with an exception other than CancelledError
SweeperFail == cleanup_task = "cleaning" /\ SweeperStep("failed")

\* the task, resumed after cancel(), ends with CancelledError
SweeperCancelled == SweeperRunning /\ cancelRequested /\ SweeperStep("cancelled")

\* ------------------------------------------------------- request handlers

HandlerGet(t) == Accepting /\ LifespanSuspended /\ Get(t)

HandlerPost(t) == Accepting /\ LifespanSuspended /\ Post(t)

HandlerReturn(t) == (LifespanSuspended \/ pc[Lifespan] \in {"done", "raised"}) /\ Return(t)

\* ==================================================== LoguruMiddleware (main.py)

Requests == 1..NReq
Methods == {"GET", "POST"}
Paths == {"/health", "/stream"}
Statuses == {200, 404}
\* what call_next can raise: a subclass of Exception, or asyncio.CancelledError,
\* which derives from BaseException alone
Raisable == {"ValueError", "CancelledError"}
ExceptionSubclasses == {"ValueError"}

NoRequest == [method |-> "", path |-> ""]
NoResult == [kind |-> "none", status |-> 0, exc |-> ""]
Responded(s) == [kind |-> "response", status |-> s, exc |-> ""]
Raised(e) == [kind |-> "exception", status |-> 0, exc |-> e]

\* str(response.status_code) as the f-string renders it
StatusText(s) == IF s = 200 THEN "200" ELSE IF s = 404 THEN "404" ELSE "?"

\* process_time = time.time() - start_time
process_time(r) == now - start_time[r]

\* f"{process_time:.2f}": hundredths of a second, rounded, of a time in 4 ms ticks
Fmt2f(ticks) == (4 * ticks + 5) \div 10

\* f"{method} {path} - {status} - {process_time:.2f}s"
AccessLine(r, status) ==
    [req |-> r, marker |-> "", method |-> request[r].method, path |-> request[r].path,
     status |-> status, elapsed |-> Fmt2f(process_time(r)), exc |-> ""]

\* f"ERROR: Exception during request processing: {e}"
ErrorLine(r, e) ==
    [req |-> r, marker |-> "ERROR", method |-> "", path |-> "", status |-> "",
     elapsed |-> 0, exc |-> e]

InitLog ==
    /\ now = 0
    /\ rpc = [r \in Requests |-> "new"]
    /\ request = [r \in Requests |-> NoRequest]
    /\ start_time = [r \in Requests |-> 0]
    /\ result = [r \in Requests |-> NoResult]
    /\ log = <<>>

\* the wall clock advances
Tick ==
    /\ now < MaxTime
    /\ now' = now + 1
    /\ UNCHANGED <<rpc, request, start_time, result, log>>
    /\ UNCHANGED <<clientVars, pc, lifeVars>>

\* dispatch up to "await call_next(request)"
DispatchBegin(r) ==
    /\ rpc[r] = "new"
    /\ \E m \in Methods, p \in Paths : request' = [request EXCEPT ![r] = [method |-> m, path |-> p]]
    /\ start_time' = [start_time EXCEPT ![r] = now]
    /\ rpc' = [rpc EXCEPT ![r] = "call_next"]
    /\ UNCHANGED <<now, result, log>>
    /\ UNCHANGED <<clientVars, pc, lifeVars>>

\* a dispatch whose finally block logs every path
dispatch_end_logs_health(r, out) ==
    LET excepted == IF out.kind = "exception" /\ out.exc \in ExceptionSubclasses
                    THEN <<ErrorLine(r, out.exc)>> ELSE <<>>
        status == IF out.kind = "response" THEN StatusText(out.status) ELSE "500"
    IN  /\ log' = log \o excepted \o <<AccessLine(r, status)>>
        /\ result' = [result EXCEPT ![r] = out]
        /\ rpc' = [rpc EXCEPT ![r] = IF out.kind = "response" THEN "returned" ELSE "raised"]
        /\ start_time' = [start_time EXCEPT ![r] = 0]

\* a dispatch whose except clause logs and does not re-raise: the "return response"
\* after it finds no response
dispatch_end_no_reraise(r, out) ==
    LET excepted == IF out.kind = "exception" /\ out.exc \in ExceptionSubclasses
                    THEN <<ErrorLine(r, out.exc)>> ELSE <<>>
        status == IF out.kind = "response" THEN StatusText(out.status) ELSE "500"
        final == IF request[r].path # "/health"
                 THEN <<AccessLine(r, status)>> ELSE <<>>
        surfaced == IF out.kind = "exception" /\ out.exc \in ExceptionSubclasses
                    THEN Raised("UnboundLocalError") ELSE out
    IN  /\ log' = log \o excepted \o final
        /\ result' = [result EXCEPT ![r] = surfaced]
        /\ rpc' = [rpc EXCEPT ![r] = IF out.kind = "response" THEN "returned" ELSE "raised"]
        /\ start_time' = [start_time EXCEPT ![r] = 0]

\* a dispatch whose except clause skips the log call for /health
dispatch_end_quiet_health(r, out) ==
    LET excepted == IF /\ out.kind = "exception"
                       /\ out.exc \in ExceptionSubclasses
                       /\ request[r].path # "/health"
                    THEN <<ErrorLine(r, out.exc)>> ELSE <<>>
        status == IF out.kind = "response" THEN StatusText(out.status) ELSE "500"
        final == IF request[r].path # "/health"
                 THEN <<AccessLine(r, status)>> ELSE <<>>
    IN  /\ log' = log \o excepted \o final
        /\ result' = [result EXCEPT ![r] = out]
        /\ rpc' = [rpc EXCEPT ![r] = IF out.kind = "response" THEN "returned" ELSE "raised"]
        /\ start_time' = [start_time EXCEPT ![r] = 0]

\* dispatch from the return of call_next on: the except clause, the finally block,
\* and the return of the response or the exception going on to the caller
dispatch_end(r, out) ==
    LET excepted == IF out.kind = "exception" /\ out.exc \in ExceptionSubclasses
                    THEN <<ErrorLine(r, out.exc)>> ELSE <<>>
        status == IF out.kind = "response" THEN StatusText(out.status) ELSE "500"
        final == IF request[r].path # "/health"
                 THEN <<AccessLine(r, status)>> ELSE <<>>
    IN  /\ log' = log \o excepted \o final
        /\ result' = [result EXCEPT ![r] = out]
        /\ rpc' = [rpc EXCEPT ![r] = IF out.kind = "response" THEN "returned" ELSE "raised"]
        /\ start_time' = [start_time EXCEPT ![r] = 0]

\* call_next returned a response
DispatchReturn(r) ==
    /\ rpc[r] = "call_next"
    /\ \E s \in Statuses : dispatch_end(r, Responded(s))
    /\ UNCHANGED <<now, request>>
    /\ UNCHANGED <<clientVars, pc, lifeVars>>

\* call_next raised
DispatchRaise(r) ==
    /\ rpc[r] = "call_next"
    /\ \E e \in Raisable : dispatch_end(r, Raised(e))
    /\ UNCHANGED <<now, request>>
    /\ UNCHANGED <<clientVars, pc, lifeVars>>

\* ========================================================== specifications

vars == <<clientVars, pc, lifeVars, logVars>>

Init ==
    /\ InitClient
    /\ pc = [c \in Callers |-> IF c = Lifespan THEN "created" ELSE "idle"]
    /\ InitLife
    /\ InitLog

\* the application: the lifespan, the sweeper and the handlers' use of http_client
Next ==
    \/ LifespanEnter
    \/ SetupDatabase
    \/ CreateTask
    \/ Yield
    \/ Resume
    \/ YieldThrow
    \/ CancelTask
    \/ AwaitTask
    \/ AwaitTaskDone
    \/ CloseClient
    \/ CloseClientDone
    \/ CloseClientRaise
    \/ TeardownDatabase
    \/ TeardownDatabaseDone
    \/ TeardownDatabaseRaise
    \/ SweeperClean
    \/ SweeperSleep
    \/ SweeperFail
    \/ SweeperCancelled
    \/ \E t \in Tasks : HandlerGet(t) \/ HandlerPost(t) \/ HandlerReturn(t)

Spec == Init /\ [][Next]_vars

\* The event loop runs every coroutine that is ready, so a shutdown step that can run
\* does run; the sweeper, once cancelled, is resumed and ends; aclose() and
\* teardown_database(), once begun, come back.
Fairness ==
    /\ WF_vars(CancelTask)
    /\ WF_vars(AwaitTask)
    /\ WF_vars(AwaitTaskDone)
    /\ WF_vars(CloseClient)
    /\ WF_vars(CloseClientDone)
    /\ WF_vars(TeardownDatabase)
    /\ WF_vars(TeardownDatabaseDone)
    /\ WF_vars(SweeperCancelled)

FairSpec == Init /\ [][Next]_vars /\ Fairness

\* HTTPClient alone, used by coroutines that call any of its methods in any order
ClientNext ==
    \E t \in Tasks :
        \/ GetClient(t)
        \/ Get(t)
        \/ Post(t)
        \/ Return(t)
        \/ Close(t)
        \/ CloseDone(t)
        \/ CloseRaise(t)

ClientSpec == Init /\ [][ClientNext]_vars

\* the middleware alone: requests dispatched while the clock runs
LogNext ==
    \/ Tick
    \/ \E r \in Requests : DispatchBegin(r) \/ DispatchReturn(r) \/ DispatchRaise(r)

LogSpec == Init /\ [][LogNext]_vars

\* ================================================================== claims

Accessors == {"get_client", "get", "post"}

\* the state right after an accessor call: last is that call
AccessorJustRan == last.op \in Accessors /\ last.outcome \in {"returned", "awaiting"}

Live == {h \in Handles : hstate[h] \in {"open", "closing"}}

IsPrefix(s, t) == Len(s) <= Len(t) /\ \A i \in 1..Len(s) : s[i] = t[i]

Rank(s) ==
    CASE s = "Created" -> 0
      [] s = "Starting" -> 1
      [] s = "Running" -> 2
      [] s = "Stopping" -> 3
      [] s = "Stopped" -> 4

LinesOf(r) == SelectSeq(log, LAMBDA l : l.req = r)

\* C1: as long as no close() has been called, whatever the interleaving of
\* get_client(), get() and post() calls, exactly one handle has been constructed once
\* any of them has run, and every call was given that handle.
C1_SingletonBeforeClose ==
    closeEvent = "none" =>
        /\ made <= 1
        /\ (last.op \in Accessors => made = 1 /\ _client = 1 /\ last.handle = 1)
        /\ \A c \in Callers : local[c] \in {None, 1}

\* two coroutines are suspended in get()/post() at once, before any close()
C1_Witness ==
    /\ closeEvent = "none"
    /\ \E t1, t2 \in Tasks : t1 # t2 /\ local[t1] = 1 /\ local[t2] = 1

\* C2: an accessor call that runs after a close() call has returned (the latest thing
\* any close() call did was to return) is given a handle: one constructed after that
\* return, so not the handle that close() closed, open, and the current one.
C2_RearmAfterClose ==
    (closeEvent = "returned" /\ AccessorJustRan) =>
        /\ last.handle # None
        /\ last.handle > staleUpTo
        /\ hstate[last.handle] = "open"
        /\ _client = last.handle

\* handle 1 was closed by a close() that returned, and get_client() then gave handle 2
C2_Witness ==
    /\ closeEvent = "returned"
    /\ last.op = "get_client"
    /\ hstate[1] = "closed"
    /\ last.handle = 2
    /\ hstate[2] = "open"

\* C3: a close() call made when there is no handle returns without raising, closes
\* nothing, and leaves the client with no handle.
C3_IdempotentClose ==
    [][\A t \in Tasks :
          (_client = None /\ Close(t)) =>
              /\ last'.outcome = "returned"
              /\ pc'[t] = "idle"
              /\ _client' = None
              /\ hstate' = hstate
              /\ made' = made]_vars

\* a close() that found no handle has returned, after an earlier close() closed handle 1
C3_Witness ==
    /\ last.op = "close"
    /\ last.handle = None
    /\ last.outcome = "returned"
    /\ hstate[1] = "closed"
    /\ _client = None

\* C4: the shutdown steps begin in the order cancel, await-sweeper, close-client,
\* teardown-database, each after the one before it has finished; a sweeper await that
\* raises CancelledError does not end the sequence, and a lifespan that reaches Stopped
\* has run all four.
C4_OrderedShutdown ==
    /\ IsPrefix(trace, ShutdownOrder)
    /\ stepsDone <= Len(trace)
    /\ Len(trace) <= stepsDone + 1
    /\ (awaited = "cancelled" => error # "cleanup_task" /\ pc[Lifespan] # "awaiting")
    /\ (lifecycle = "Stopped" => trace = ShutdownOrder /\ stepsDone = 4)

\* a shutdown whose sweeper await raised CancelledError has run to its end
C4_Witness ==
    /\ lifecycle = "Stopped"
    /\ awaited = "cancelled"
    /\ trace = ShutdownOrder
    /\ hstate[1] = "closed"

\* C5: when the sweeper await raises an error other than CancelledError, the lifespan
\* still closes the client and tears the database down before it ends.
C5_OtherErrorStillCleansUp ==
    (awaited = "error" /\ pc[Lifespan] \in {"done", "raised"}) => trace = ShutdownOrder

\* C6: once setup_database() has failed the lifespan has ended in Starting with that
\* error, no sweeper task exists and no handler has run.
C6_FailFastStartup ==
    db = "init_failed" =>
        /\ lifecycle = "Starting"
        /\ pc[Lifespan] = "raised"
        /\ error = "setup_database"
        /\ cleanup_task = "none"
        /\ \A t \in Tasks : pc[t] = "idle"
        /\ last.op = "none"
        /\ made = 0

\* setup_database() has failed
C6_Witness == db = "init_failed" /\ pc[Lifespan] = "raised"

\* C7: at most one handle is constructed and not yet closed, overlapping close()
\* calls included.
C7_AtMostOneLive == Cardinality(Live) <= 1

\* C8: at Stopped every handle that was constructed has been closed.
C8_NoLeakAtStopped ==
    lifecycle = "Stopped" => \A h \in Handles : hstate[h] \in {"absent", "closed"}

\* C9: every step leaves the lifecycle state as it is or moves it to the next of
\* Created, Starting, Running, Stopping, Stopped; nothing follows Stopped.
C9_LifecycleAdvances ==
    [][/\ Rank(lifecycle') \in {Rank(lifecycle), Rank(lifecycle) + 1}
       /\ (lifecycle = "Stopped" => lifecycle' = "Stopped" /\ pc'[Lifespan] = pc[Lifespan])]_vars

\* the lifespan ran from Created to Stopped
C9_Witness == lifecycle = "Stopped" /\ pc[Lifespan] = "done"

\* C10: a request to /health that got a response has no log line; a request to
\* another path that got a 200 response has exactly one, with its method, its path,
\* "200" and an elapsed time >= 0.
C10_LivenessExemption ==
    \A r \in Requests :
        rpc[r] = "returned" =>
            IF request[r].path = "/health"
            THEN LinesOf(r) = <<>>
            ELSE result[r].status = 200 =>
                    /\ Len(LinesOf(r)) = 1
                    /\ LinesOf(r)[1].marker = ""
                    /\ LinesOf(r)[1].method = request[r].method
                    /\ LinesOf(r)[1].path = request[r].path
                    /\ LinesOf(r)[1].status = "200"
                    /\ LinesOf(r)[1].elapsed >= 0

\* a /health request and a POST to another path have both returned 200, the second
\* after a measurable time
C10_Witness ==
    \E r1, r2 \in Requests :
        /\ rpc[r1] = "returned" /\ request[r1].path = "/health" /\ result[r1].status = 200
        /\ rpc[r2] = "returned" /\ request[r2] = [method |-> "POST", path |-> "/stream"]
        /\ result[r2].status = 200
        /\ Len(LinesOf(r2)) = 1
        /\ LinesOf(r2)[1].elapsed > 0

ErrorLinesOf(r) == SelectSeq(LinesOf(r), LAMBDA l : l.marker = "ERROR")

\* C11: a request, on any path, whose handler raised an exception derived from
\* Exception has exactly one error-marked log line, naming that exception, and the
\* exception that reaches the caller is the one the handler raised.
C11_FailureLoggedAndReraised ==
    \A r \in Requests :
        rpc[r] = "raised" =>
            /\ result[r].kind = "exception"
            /\ result[r].exc \in Raisable
            /\ result[r].exc \in ExceptionSubclasses =>
                   /\ Len(ErrorLinesOf(r)) = 1
                   /\ ErrorLinesOf(r)[1].exc = result[r].exc

\* C11 as stated: every request whose handler raised, whatever the exception, has
\* exactly one error-marked log line and the handler's exception reaches the caller.
C11_AnyExceptionLogged ==
    \A r \in Requests :
        rpc[r] = "raised" =>
            /\ result[r].kind = "exception"
            /\ result[r].exc \in Raisable
            /\ Len(ErrorLinesOf(r)) = 1

\* a /health request and a request on another path have both raised ValueError
C11_Witness ==
    \E r1, r2 \in Requests :
        /\ rpc[r1] = "raised" /\ request[r1].path = "/health"
        /\ rpc[r2] = "raised" /\ request[r2].path = "/stream"
        /\ result[r1] = Raised("ValueError")
        /\ result[r2] = Raised("ValueError")
        /\ Len(LinesOf(r2)) = 2

\* C19: a /health request whose handler raised an exception derived from Exception
\* has the error-marked log line, and the error-marked lines of a failed /health
\* request are those of a request on another path that failed with the same exception.
C19_HealthFailureLogged ==
    \A r \in Requests :
        (rpc[r] = "raised" /\ request[r].path = "/health") =>
            /\ result[r].exc \in ExceptionSubclasses =>
                   /\ Len(ErrorLinesOf(r)) = 1
                   /\ ErrorLinesOf(r)[1].marker = "ERROR"
                   /\ ErrorLinesOf(r)[1].exc = result[r].exc
            /\ \A o \in Requests :
                   (rpc[o] = "raised" /\ request[o].path # "/health"
                        /\ result[o].exc = result[r].exc) =>
                       /\ Len(ErrorLinesOf(o)) = Len(ErrorLinesOf(r))
                       /\ \A i \in 1..Len(ErrorLinesOf(r)) :
                              ErrorLinesOf(o)[i].exc = ErrorLinesOf(r)[i].exc

\* a /health request has raised ValueError and its only log line is the error line
C19_Witness ==
    \E r \in Requests :
        /\ rpc[r] = "raised"
        /\ request[r].path = "/health"
        /\ result[r] = Raised("ValueError")
        /\ Len(LinesOf(r)) = 1
        /\ LinesOf(r)[1].marker = "ERROR"

\* C19 as stated: every /health request whose handler raised, whatever the exception,
\* has the error-marked log line.
C19_AnyHealthFailureLogged ==
    \A r \in Requests :
        (rpc[r] = "raised" /\ request[r].path = "/health") =>
            /\ Len(ErrorLinesOf(r)) = 1
            /\ ErrorLinesOf(r)[1].exc = result[r].exc

Schemes == {"http", "https"}

\* the endpoints a handle's routing table gives for requests of a scheme: those of the
\* entries whose pattern is the scheme's own or "all://"
RouteOf(conf, scheme) ==
    {e[2] : e \in {m \in conf.proxies :
                      \/ m[1] = "all://"
                      \/ (m[1] = "http://" /\ scheme = "http")
                      \/ (m[1] = "https://" /\ scheme = "https")}}

\* C12: every handle constructed, the first and every one made again after a close(),
\* has timeout 15, follows redirects and has no connection limits; with a proxy
\* configured its routing sends every scheme to that proxy and nowhere else, with none
\* configured it has no proxy.
C12_ProxyRouting ==
    \A h \in Handles :
        hstate[h] # "absent" =>
            /\ hconf[h].timeout = 15
            /\ hconf[h].follow_redirects = TRUE
            /\ hconf[h].max_connections = "None"
            /\ hconf[h].max_keepalive_connections = "None"
            /\ IF PROXY_URL # ""
               THEN \A s \in Schemes : RouteOf(hconf[h], s) = {PROXY_URL}
               ELSE hconf[h].proxies = {}

\* with a proxy configured, handle 1 was closed and handle 2 constructed after it
C12_Witness ==
    /\ PROXY_URL # ""
    /\ hstate[1] = "closed"
    /\ hstate[2] = "open"
    /\ hconf[2].proxies # {}

\* C13: a get_client(), get() or post() call that ran while a close() was suspended
\* in aclose() was given an open handle, never one whose aclose() had begun.
C13_NoClosingHandleGiven ==
    (AccessorJustRan /\ \E c \in Callers : pc[c] = "aclose") =>
        /\ last.handle # None
        /\ hstate[last.handle] = "open"

\* C14: from the moment the close-client step begins, through the closing of the
\* client and the teardown of the database, the sweeper task has ended (cancelled, or
\* finished with an error): it is never still running then.
C14_SweeperEndedBeforeClose ==
    (\/ pc[Lifespan] \in {"close", "aclose", "teardown", "in_teardown", "done"}
     \/ Len(trace) >= 3) =>
        cleanup_task \in {"cancelled", "failed"}

\* the lifespan is suspended in aclose() of handle 1 and the sweeper has ended cancelled
C14_Witness ==
    /\ pc[Lifespan] = "aclose"
    /\ hstate[1] = "closing"
    /\ cleanup_task = "cancelled"
    /\ awaited = "cancelled"

\* C15: a shutdown in which http_client.close() raised has still run
\* teardown_database() when the lifespan ends.
C15_TeardownAfterFailedClose ==
    (pc[Lifespan] = "raised" /\ error = "close") =>
        /\ trace = ShutdownOrder
        /\ db = "torn_down"

\* C16: the lifespan ends by raising exactly when an error is recorded, of the step
\* that raised it: an exception of the sweeper other than CancelledError, of close()
\* or of teardown_database() leaves the lifespan for the host, and only the sweeper's
\* CancelledError is passed over; a lifespan that ends normally dropped no error.
C16_OnlyCancellationAbsorbed ==
    /\ pc[Lifespan] = "raised" <=> error # "none"
    /\ awaited = "error" => (pc[Lifespan] = "raised" /\ error = "cleanup_task")
    /\ awaited = "cancelled" => error # "cleanup_task"
    /\ (last.caller = Lifespan /\ last.op = "close" /\ last.outcome = "raised") =>
           (pc[Lifespan] = "raised" /\ error = "close")
    /\ (pc[Lifespan] = "raised" /\ trace = ShutdownOrder) => error = "teardown_database"
    /\ pc[Lifespan] = "done" => (awaited = "cancelled" /\ db = "torn_down")

\* the sweeper's CancelledError was passed over and the exception of close() then
\* left the lifespan
C16_Witness ==
    /\ awaited = "cancelled"
    /\ pc[Lifespan] = "raised"
    /\ error = "close"
    /\ last.outcome = "raised"

\* C17: a lifespan that left Running and has ended, by the host's shutdown or by an
\* exception or cancellation delivered at its yield, no shutdown step having raised,
\* has cancelled and awaited the sweeper, closed the client and torn the database down.
C17_EveryExitRunsShutdown ==
    (/\ pc[Lifespan] \in {"done", "raised"}
     /\ Rank(lifecycle) >= 2
     /\ error \in {"none", "yield"}) =>
        /\ trace = ShutdownOrder
        /\ cleanup_task \in {"cancelled", "failed"}
        /\ db = "torn_down"

\* C18: the lifecycle is Running or later only with the database initialized and the
\* sweeper task created; a sweeper task exists only with the database initialized;
\* create_task runs only when no task exists yet and the database is up, and a task
\* once created is never replaced by none.
C18_StartupOrder ==
    /\ [](Rank(lifecycle) >= 2 => (db \in {"up", "torn_down"} /\ cleanup_task # "none"))
    /\ [](cleanup_task # "none" => db \in {"up", "torn_down"})
    /\ [][CreateTask => (cleanup_task = "none" /\ db = "up" /\ lifecycle = "Starting")]_vars
    /\ [][cleanup_task # "none" => (cleanup_task' # "none" /\ ~CreateTask)]_vars

\* the application is Running, with the database up and the sweeper in a cleanup pass
C18_Witness ==
    /\ lifecycle = "Running"
    /\ pc[Lifespan] = "yielded"
    /\ db = "up"
    /\ cleanup_task = "cleaning"

\* the claim's assumptions do not hold: the sweeper ended with an error of its own, or
\* close() or teardown_database() raised
AssumptionBroken == cleanup_task = "failed" \/ error \in {"close", "teardown_database"}

\* C20: once the host's shutdown has resumed the lifespan (Stopping), the lifecycle
\* reaches Stopped, unless the sweeper ends with an error other than its cancellation
\* or close() or teardown_database() raises.
C20_ShutdownTerminates == (lifecycle = "Stopping") ~> (lifecycle = "Stopped" \/ AssumptionBroken)

\* a shutdown has reached Stopped with none of the assumptions broken
C20_Witness ==
    /\ lifecycle = "Stopped"
    /\ ~AssumptionBroken
    /\ cleanup_task = "cancelled"
    /\ stepsDone = 4

====
